---- MODULE Spec2Model ----
(***************************************************************************)
(* SSZ codec of sszb: the encode side (SszbEncode), the decode side        *)
(* (SszbDecode) and the derived container codec, as pure operators over    *)
(* byte sequences, driven by a small harness that encodes a value, may     *)
(* damage or extend the bytes, and decodes them or reads a static value    *)
(* from their front; it also asks for maximum lengths and writes offsets   *)
(* with the arithmetic of usize.                                           *)
(*                                                                         *)
(* A type is a record [kind, n, sub]: kind names the impl, n is the type   *)
(* level number (bit size, capacity N, length N), sub the element type or  *)
(* the field types.  A value is a number (uints), a boolean (bool), a      *)
(* sequence of bits (BitList), a sequence of values (lists, vectors) or a  *)
(* tuple of field values (containers).  Bytes are numbers 0..255.          *)
(***************************************************************************)
EXTENDS Integers, Sequences, FiniteSets, TLC

VARIABLES
    ty,               \* the type T the value was encoded as
    value,            \* the value v given to ssz_write
    overflow_checks,  \* build profile: TRUE when usize arithmetic panics on overflow
    buf,              \* the bytes ssz_write put into the sink
    input,            \* the bytes handed to the decoder
    tamper,           \* what was done to the bytes between encode and decode
    dty,              \* the type the bytes are decoded as
    result,           \* what from_ssz_bytes or ssz_read returned
    cursors,          \* the bytes left in the two buffers after ssz_read
    sized,            \* a length or a write cursor computed on usize
    pc                \* "start", "encoded", "tampered", "decoded", "read",
                      \* "sized"

vars ==
    <<ty, value, overflow_checks, buf, input, tamper, dty, result, cursors,
      sized, pc>>

(***************************************************************************)
(* Bounds of the model.                                                    *)
(***************************************************************************)
MaxN == 2         \* capacity N of the bounded lists
MaxInner == 2     \* capacity of the inner lists of a list of lists
VecLen == 2       \* length N of the fixed vectors
MaxBits == 8      \* capacity N of the bit list
BytesN == 3       \* length N of the byte arrays FixedBytes<N>
Huge == 4194304   \* capacity N of the lists whose maximum length is measured

BYTES_PER_LENGTH_OFFSET == 4

(***************************************************************************)
(* Types.                                                                  *)
(***************************************************************************)
U8 == [kind |-> "u8", n |-> 8, sub |-> <<>>]
U16 == [kind |-> "uint", n |-> 16, sub |-> <<>>]
Bool == [kind |-> "bool", n |-> 8, sub |-> <<>>]
FixedBytes(N) == [kind |-> "FixedBytes", n |-> N, sub |-> <<>>]
BitList(N) == [kind |-> "BitList", n |-> N, sub |-> <<>>]
VariableList(T, N) == [kind |-> "VariableList", n |-> N, sub |-> <<T>>]
FixedVector(T, N) == [kind |-> "FixedVector", n |-> N, sub |-> <<T>>]
Container(fields) == [kind |-> "Container", n |-> 0, sub |-> fields]

(***************************************************************************)
(* Byte helpers.                                                           *)
(***************************************************************************)
RECURSIVE to_le_bytes(_, _)
\* x.to_le_bytes()[0..w]: the w low bytes of x, least significant first
to_le_bytes(x, w) ==
    IF w = 0 THEN <<>> ELSE <<x % 256>> \o to_le_bytes(x \div 256, w - 1)

RECURSIVE from_le_bytes(_)
\* the number a little-endian byte string spells
from_le_bytes(bytes) ==
    IF Len(bytes) = 0 THEN 0 ELSE Head(bytes) + 256 * from_le_bytes(Tail(bytes))

\* buf.put_slice(&offset.to_le_bytes()[0..BYTES_PER_LENGTH_OFFSET])
put_offset(offset) == to_le_bytes(offset, BYTES_PER_LENGTH_OFFSET)

Max(a, b) == IF a >= b THEN a ELSE b

\* the first k bytes and the bytes after them
Take(s, k) == SubSeq(s, 1, k)
Drop(s, k) == SubSeq(s, k + 1, Len(s))

(***************************************************************************)
(* BitList<N> of ssz_types: the bits, then one sentinel bit, packed least  *)
(* significant bit first.                                                  *)
(***************************************************************************)
BitList_into_bytes(bits) ==
    LET all == bits \o <<1>>
        bit(i) == IF i <= Len(all) THEN all[i] ELSE 0
    IN [j \in 1..(Len(bits) \div 8 + 1) |->
            bit(8 * j - 7) + 2 * bit(8 * j - 6) + 4 * bit(8 * j - 5)
            + 8 * bit(8 * j - 4) + 16 * bit(8 * j - 3) + 32 * bit(8 * j - 2)
            + 64 * bit(8 * j - 1) + 128 * bit(8 * j)]

(***************************************************************************)
(* Encode side: SszbEncode.                                                *)
(***************************************************************************)
RECURSIVE is_ssz_static(_), ssz_fixed_len(_), ssz_max_len(_)
RECURSIVE sszb_bytes_len(_, _), ssz_write(_, _), ssz_write_fixed(_, _, _)
RECURSIVE ssz_write_variable(_, _)

RECURSIVE all_static(_)
\* #( #static_stmts && )* true
all_static(fields) ==
    IF Len(fields) = 0 THEN TRUE
    ELSE is_ssz_static(Head(fields)) /\ all_static(Tail(fields))

RECURSIVE sum_fixed_len(_)
\* let mut len = 0; #( len = len.checked_add(#fixed_len_stmts) )*
sum_fixed_len(fields) ==
    IF Len(fields) = 0 THEN 0
    ELSE ssz_fixed_len(Head(fields)) + sum_fixed_len(Tail(fields))

RECURSIVE sum_max_len(_)
\* let mut len = 0; #( len = len.checked_add(#max_len_stmts) )*
sum_max_len(fields) ==
    IF Len(fields) = 0 THEN 0
    ELSE ssz_max_len(Head(fields)) + sum_max_len(Tail(fields))

derive_is_ssz_static(t) == all_static(t.sub)

\* the derived ssz_fixed_len summing the fields whether static or not
derive_ssz_fixed_len_AlwaysSum(t) == sum_fixed_len(t.sub)

derive_ssz_fixed_len(t) ==
    IF derive_is_ssz_static(t) THEN sum_fixed_len(t.sub)
    ELSE BYTES_PER_LENGTH_OFFSET

derive_ssz_max_len(t) == sum_max_len(t.sub)

VariableList_ssz_max_len(t) == ssz_max_len(t.sub[1]) * t.n

FixedVector_ssz_fixed_len(t) ==
    IF is_ssz_static(t.sub[1]) THEN ssz_fixed_len(t.sub[1]) * t.n
    ELSE BYTES_PER_LENGTH_OFFSET

FixedVector_ssz_max_len(t) == ssz_max_len(t.sub[1]) * t.n

BitList_ssz_max_len(t) == Max(1, (t.n + 7) \div 8)

is_ssz_static(t) ==
    CASE t.kind \in {"u8", "uint", "bool", "FixedBytes"} -> TRUE
      [] t.kind \in {"BitList", "VariableList"} -> FALSE
      [] t.kind = "FixedVector" -> is_ssz_static(t.sub[1])
      [] t.kind = "Container" -> derive_is_ssz_static(t)

ssz_fixed_len(t) ==
    CASE t.kind = "u8" -> 1
      [] t.kind = "uint" -> t.n \div 8
      [] t.kind = "bool" -> 1
      [] t.kind = "FixedBytes" -> t.n
      [] t.kind \in {"BitList", "VariableList"} -> BYTES_PER_LENGTH_OFFSET
      [] t.kind = "FixedVector" -> FixedVector_ssz_fixed_len(t)
      [] t.kind = "Container" -> derive_ssz_fixed_len(t)

ssz_max_len(t) ==
    CASE t.kind = "u8" -> 1
      [] t.kind = "uint" -> t.n \div 8
      [] t.kind = "bool" -> 1
      [] t.kind = "FixedBytes" -> t.n
      [] t.kind = "BitList" -> BitList_ssz_max_len(t)
      [] t.kind = "VariableList" -> VariableList_ssz_max_len(t)
      [] t.kind = "FixedVector" -> FixedVector_ssz_max_len(t)
      [] t.kind = "Container" -> derive_ssz_max_len(t)

RECURSIVE sum_bytes_len(_, _)
\* self.iter().map(|item| SszbEncode::sszb_bytes_len(item)).sum()
sum_bytes_len(T, items) ==
    IF Len(items) = 0 THEN 0
    ELSE sszb_bytes_len(T, Head(items)) + sum_bytes_len(T, Tail(items))

\* VariableList::sszb_bytes_len without the offsets of the variable elements
VariableList_sszb_bytes_len_NoOffsets(t, v) ==
    IF is_ssz_static(t.sub[1]) THEN ssz_fixed_len(t.sub[1]) * Len(v)
    ELSE sum_bytes_len(t.sub[1], v)

VariableList_sszb_bytes_len(t, v) ==
    IF is_ssz_static(t.sub[1]) THEN ssz_fixed_len(t.sub[1]) * Len(v)
    ELSE sum_bytes_len(t.sub[1], v) + BYTES_PER_LENGTH_OFFSET * Len(v)

FixedVector_sszb_bytes_len(t, v) ==
    IF is_ssz_static(t.sub[1]) THEN ssz_fixed_len(t.sub[1]) * t.n
    ELSE sum_bytes_len(t.sub[1], v) + BYTES_PER_LENGTH_OFFSET * t.n

BitList_sszb_bytes_len(v) == Len(BitList_into_bytes(v))

RECURSIVE sum_fields_bytes_len(_, _)
\* the #( if #static_stmts {..} else {..} )* loop of the derived sszb_bytes_len
sum_fields_bytes_len(fields, vs) ==
    IF Len(fields) = 0 THEN 0
    ELSE (IF is_ssz_static(Head(fields)) THEN ssz_fixed_len(Head(fields))
          ELSE BYTES_PER_LENGTH_OFFSET + sszb_bytes_len(Head(fields), Head(vs)))
         + sum_fields_bytes_len(Tail(fields), Tail(vs))

derive_sszb_bytes_len(t, v) ==
    IF derive_is_ssz_static(t) THEN derive_ssz_fixed_len(t)
    ELSE sum_fields_bytes_len(t.sub, v)

sszb_bytes_len(t, v) ==
    CASE t.kind = "u8" -> 1
      [] t.kind = "uint" -> t.n \div 8
      [] t.kind = "bool" -> 1
      [] t.kind = "FixedBytes" -> t.n
      [] t.kind = "BitList" -> BitList_sszb_bytes_len(v)
      [] t.kind = "VariableList" -> VariableList_sszb_bytes_len(t, v)
      [] t.kind = "FixedVector" -> FixedVector_sszb_bytes_len(t, v)
      [] t.kind = "Container" -> derive_sszb_bytes_len(t, v)

\* what ssz_write_fixed leaves behind: the bytes put and the caller's cursor
Written(bytes, offset) == [bytes |-> bytes, offset |-> offset]

u8_ssz_write(v) == <<v>>

uint_ssz_write(t, v) == to_le_bytes(v, t.n \div 8)

bool_ssz_write(v) == to_le_bytes(IF v THEN 1 ELSE 0, 1)

\* buf.put_slice(&self.0)
FixedBytes_ssz_write(v) == v

BitList_ssz_write(v) == BitList_into_bytes(v)

RECURSIVE write_items(_, _)
\* for item in self { item.ssz_write(buf) }
write_items(T, items) ==
    IF Len(items) = 0 THEN <<>>
    ELSE ssz_write(T, Head(items)) \o write_items(T, Tail(items))

RECURSIVE write_items_fixed(_, _, _)
\* for item in self { item.ssz_write_fixed(offset, buf) }
write_items_fixed(T, items, offset) ==
    IF Len(items) = 0 THEN <<>>
    ELSE LET w == ssz_write_fixed(T, Head(items), offset)
         IN w.bytes \o write_items_fixed(T, Tail(items), w.offset)

\* the write of a sequence whose offsets count from the end of the table
sequence_ssz_write_CursorFromZero(t, v) ==
    IF is_ssz_static(t.sub[1]) THEN write_items(t.sub[1], v)
    ELSE write_items_fixed(t.sub[1], v, 0) \o write_items(t.sub[1], v)

\* the write of a sequence, shared text of VariableList and FixedVector
sequence_ssz_write(t, v) ==
    IF is_ssz_static(t.sub[1]) THEN write_items(t.sub[1], v)
    ELSE write_items_fixed(t.sub[1], v, Len(v) * BYTES_PER_LENGTH_OFFSET)
         \o write_items(t.sub[1], v)

VariableList_ssz_write(t, v) == sequence_ssz_write(t, v)

FixedVector_ssz_write(t, v) == sequence_ssz_write(t, v)

\* ssz_write_fixed of a variable value that forgets to advance the cursor
variable_ssz_write_fixed_NoAdvance(t, v, offset) ==
    Written(put_offset(offset), offset)

\* ssz_write_fixed of a variable value: the offset, then the cursor advances
variable_ssz_write_fixed(t, v, offset) ==
    Written(put_offset(offset), offset + sszb_bytes_len(t, v))

FixedVector_ssz_write_fixed(t, v, offset) ==
    IF is_ssz_static(t.sub[1]) THEN Written(FixedVector_ssz_write(t, v), offset)
    ELSE variable_ssz_write_fixed(t, v, offset)

RECURSIVE write_fields_fixed(_, _, _)
\* #( self.#ident.ssz_write_fixed(&mut offset, buf); )*
write_fields_fixed(fields, vs, offset) ==
    IF Len(fields) = 0 THEN Written(<<>>, offset)
    ELSE LET w == ssz_write_fixed(Head(fields), Head(vs), offset)
             r == write_fields_fixed(Tail(fields), Tail(vs), w.offset)
         IN Written(w.bytes \o r.bytes, r.offset)

RECURSIVE write_fields_variable(_, _)
\* #( self.#ident.ssz_write_variable(buf); )*
write_fields_variable(fields, vs) ==
    IF Len(fields) = 0 THEN <<>>
    ELSE ssz_write_variable(Head(fields), Head(vs))
         \o write_fields_variable(Tail(fields), Tail(vs))

\* the derived ssz_write with the cursor starting at 0 instead of the header size
derive_ssz_write_CursorFromZero(t, v) ==
    write_fields_fixed(t.sub, v, 0).bytes \o write_fields_variable(t.sub, v)

derive_ssz_write(t, v) ==
    LET offset == sum_fixed_len(t.sub)
    IN write_fields_fixed(t.sub, v, offset).bytes
       \o write_fields_variable(t.sub, v)

derive_ssz_write_fixed(t, v, offset) ==
    IF derive_is_ssz_static(t) THEN write_fields_fixed(t.sub, v, offset)
    ELSE variable_ssz_write_fixed(t, v, offset)

ssz_write(t, v) ==
    CASE t.kind = "u8" -> u8_ssz_write(v)
      [] t.kind = "uint" -> uint_ssz_write(t, v)
      [] t.kind = "bool" -> bool_ssz_write(v)
      [] t.kind = "FixedBytes" -> FixedBytes_ssz_write(v)
      [] t.kind = "BitList" -> BitList_ssz_write(v)
      [] t.kind = "VariableList" -> VariableList_ssz_write(t, v)
      [] t.kind = "FixedVector" -> FixedVector_ssz_write(t, v)
      [] t.kind = "Container" -> derive_ssz_write(t, v)

ssz_write_fixed(t, v, offset) ==
    CASE t.kind \in {"u8", "uint", "bool", "FixedBytes"} ->
            Written(ssz_write(t, v), offset)
      [] t.kind \in {"BitList", "VariableList"} ->
            variable_ssz_write_fixed(t, v, offset)
      [] t.kind = "FixedVector" -> FixedVector_ssz_write_fixed(t, v, offset)
      [] t.kind = "Container" -> derive_ssz_write_fixed(t, v, offset)

ssz_write_variable(t, v) ==
    IF is_ssz_static(t) THEN <<>> ELSE ssz_write(t, v)

(***************************************************************************)
(* Lengths and cursors at the width of usize.  A usize is its             *)
(* USIZE_BYTES little-endian bytes, so that offset.to_le_bytes()[0..4] is  *)
(* what the code takes.  A computation ends ok with a value, or in the     *)
(* overflow panic; wrapped records that an operation overflowed and the    *)
(* computation went on with the result modulo 2^64.                        *)
(***************************************************************************)
USIZE_BYTES == 8

\* a number below 2^31 as usize
usize(x) == to_le_bytes(x, USIZE_BYTES)

Length(v) == [st |-> "ok", val |-> v, wrapped |-> FALSE]

Overflowed == [st |-> "panic", val |-> usize(0), wrapped |-> FALSE]

RECURSIVE add_bytes(_, _, _)
\* a + b + carry byte by byte; the carry out of the last byte comes last
add_bytes(a, b, carry) ==
    IF Len(a) = 0 THEN <<carry>>
    ELSE LET s == Head(a) + Head(b) + carry
         IN <<s % 256>> \o add_bytes(Tail(a), Tail(b), s \div 256)

RECURSIVE mul_bytes(_, _, _)
\* a * n + carry byte by byte, for n below 2^23; what does not fit comes last
mul_bytes(a, n, carry) ==
    IF Len(a) = 0 THEN <<carry>>
    ELSE LET s == Head(a) * n + carry
         IN <<s % 256>> \o mul_bytes(Tail(a), n, s \div 256)

\* a.checked_add(b).expect(..): panics on overflow in every build
checked_add(a, b) ==
    IF a.st = "panic" \/ b.st = "panic" THEN Overflowed
    ELSE LET s == add_bytes(a.val, b.val, 0)
         IN IF s[USIZE_BYTES + 1] /= 0 THEN Overflowed
            ELSE [st |-> "ok", val |-> Take(s, USIZE_BYTES),
                  wrapped |-> a.wrapped \/ b.wrapped]

\* a + b and a += b on usize: on overflow it panics when overflow checks are
\* compiled in, and wraps otherwise
usize_add(a, b) ==
    IF a.st = "panic" \/ b.st = "panic" THEN Overflowed
    ELSE LET s == add_bytes(a.val, b.val, 0)
             over == s[USIZE_BYTES + 1] /= 0
         IN IF over /\ overflow_checks THEN Overflowed
            ELSE [st |-> "ok", val |-> Take(s, USIZE_BYTES),
                  wrapped |-> a.wrapped \/ b.wrapped \/ over]

\* a * n on usize, likewise
usize_mul(a, n) ==
    IF a.st = "panic" THEN Overflowed
    ELSE LET s == mul_bytes(a.val, n, 0)
             over == s[USIZE_BYTES + 1] /= 0
         IN IF over /\ overflow_checks THEN Overflowed
            ELSE [st |-> "ok", val |-> Take(s, USIZE_BYTES),
                  wrapped |-> a.wrapped \/ over]

RECURSIVE usize_ssz_max_len(_)
RECURSIVE usize_sum_max_len(_, _)
\* #( len = len.checked_add(#max_len_stmts).expect(..); )*
usize_sum_max_len(fields, len) ==
    IF Len(fields) = 0 THEN len
    ELSE usize_sum_max_len(Tail(fields),
                           checked_add(len, usize_ssz_max_len(Head(fields))))

\* SszbEncode::ssz_max_len() as the code computes it on usize
usize_ssz_max_len(t) ==
    CASE t.kind \in {"VariableList", "FixedVector"} ->
            usize_mul(usize_ssz_max_len(t.sub[1]), t.n)
      [] t.kind = "Container" -> usize_sum_max_len(t.sub, Length(usize(0)))
      [] OTHER -> Length(usize(ssz_max_len(t)))

\* ssz_write_fixed of a variable value that writes the largest offset when
\* the cursor does not fit four bytes
usize_ssz_write_fixed_Saturating(t, v, offset) ==
    LET advanced == usize_add(Length(offset),
                              Length(usize(sszb_bytes_len(t, v))))
    IN [st |-> advanced.st,
        bytes |-> IF Drop(offset, BYTES_PER_LENGTH_OFFSET) = <<0, 0, 0, 0>>
                  THEN Take(offset, BYTES_PER_LENGTH_OFFSET)
                  ELSE <<255, 255, 255, 255>>,
        offset |-> advanced.val, wrapped |-> advanced.wrapped]

\* ssz_write_fixed of a variable value, the cursor a usize:
\*   buf.put_slice(&offset.to_le_bytes()[0..BYTES_PER_LENGTH_OFFSET]);
\*   *offset += self.sszb_bytes_len();
usize_ssz_write_fixed(t, v, offset) ==
    LET advanced == usize_add(Length(offset),
                              Length(usize(sszb_bytes_len(t, v))))
    IN [st |-> advanced.st,
        bytes |-> Take(offset, BYTES_PER_LENGTH_OFFSET),
        offset |-> advanced.val, wrapped |-> advanced.wrapped]

(***************************************************************************)
(* Decode side: SszbDecode.  A read returns what the Rust call returns:    *)
(* Ok(value) with the two cursors advanced, Err(DecodeError), or a panic.  *)
(***************************************************************************)
DecodeError(kind, len, expected) ==
    [kind |-> kind, len |-> len, expected |-> expected]

NoError == DecodeError("", 0, 0)

Ok(v, fixed, variable) ==
    [st |-> "ok", val |-> v, err |-> NoError, fixed |-> fixed,
     variable |-> variable]

Err(e) ==
    [st |-> "err", val |-> <<>>, err |-> e, fixed |-> <<>>, variable |-> <<>>]

Panic ==
    [st |-> "panic", val |-> <<>>, err |-> NoError, fixed |-> <<>>,
     variable |-> <<>>]

InvalidByteLength(len, expected) ==
    Err(DecodeError("InvalidByteLength", len, expected))

BytesInvalid == Err(DecodeError("BytesInvalid", 0, 0))

\* BytesInvalid("Out-of-range for boolean: {num}"): the byte the message
\* names is kept in the len field
OutOfRangeForBoolean(num) == Err(DecodeError("BytesInvalid", num, 0))

\* Option<usize>
None == <<>>
Some(x) == <<x>>

\* a - b on usize: panics when overflow checks are compiled in, wraps
\* otherwise; the wrapped value is above every length the model builds and is
\* stood for by the largest number TLC holds
usize_sub(a, b) ==
    IF a >= b THEN [panic |-> FALSE, val |-> a - b]
    ELSE IF overflow_checks THEN [panic |-> TRUE, val |-> 0]
    ELSE [panic |-> FALSE, val |-> 2147483647]

\* read_offset_from_slice: the 4-byte little-endian offset of a slice
read_offset_from_slice(bytes) ==
    IF Len(bytes) < BYTES_PER_LENGTH_OFFSET
    THEN InvalidByteLength(Len(bytes), BYTES_PER_LENGTH_OFFSET)
    ELSE Ok(from_le_bytes(Take(bytes, BYTES_PER_LENGTH_OFFSET)), <<>>, <<>>)

\* read_offset_from_buf: the same, read at the cursor of a buffer it advances
read_offset_from_buf(fixed) ==
    IF Len(fixed) < BYTES_PER_LENGTH_OFFSET
    THEN InvalidByteLength(Len(fixed), BYTES_PER_LENGTH_OFFSET)
    ELSE Ok(from_le_bytes(Take(fixed, BYTES_PER_LENGTH_OFFSET)),
            Drop(fixed, BYTES_PER_LENGTH_OFFSET), <<>>)

\* sanitize_offset(offset, previous_offset, num_bytes, num_fixed_bytes)
sanitize_offset(offset, previous_offset, num_bytes, num_fixed_bytes) ==
    IF offset > num_bytes THEN Err(DecodeError("OffsetOutOfBounds", offset, 0))
    ELSE IF previous_offset /= None /\ previous_offset[1] > offset
    THEN Err(DecodeError("OffsetsAreDecreasing", offset, 0))
    ELSE IF num_fixed_bytes /= None
            /\ num_fixed_bytes[1] < BYTES_PER_LENGTH_OFFSET
    THEN Err(DecodeError("OffsetIntoFixedPortion", offset, 0))
    ELSE Ok(offset, <<>>, <<>>)

RECURSIVE ssz_read(_, _, _), from_ssz_bytes(_, _)

u8_ssz_read(fixed, variable) ==
    LET len == Len(fixed)
        expected == 1
    IN IF len < expected THEN InvalidByteLength(len, expected)
       ELSE Ok(Head(fixed), Tail(fixed), variable)

uint_ssz_read(t, fixed, variable) ==
    LET len == Len(fixed)
        expected == t.n \div 8
    IN IF len < expected THEN InvalidByteLength(len, expected)
       ELSE Ok(from_le_bytes(Take(fixed, expected)), Drop(fixed, expected),
               variable)

\* FixedBytes<N>::ssz_read: copy_to_slice fills the N-byte array before the
\* length is compared, and panics when fewer than N bytes remain
FixedBytes_ssz_read(t, fixed, variable) ==
    LET len == Len(fixed)
        expected == t.n
    IN IF len < t.n THEN Panic
       ELSE IF len < expected THEN InvalidByteLength(len, expected)
       ELSE Ok(Take(fixed, t.n), Drop(fixed, t.n), variable)

\* bool::ssz_read taking every non-zero byte for true
bool_ssz_read_NonZeroIsTrue(fixed, variable) ==
    LET len == Len(fixed)
        expected == 1
    IN IF len < expected THEN InvalidByteLength(len, expected)
       ELSE Ok(Head(fixed) /= 0, Tail(fixed), variable)

bool_ssz_read(fixed, variable) ==
    LET len == Len(fixed)
        expected == 1
    IN IF len < expected THEN InvalidByteLength(len, expected)
       ELSE CASE Head(fixed) = 0 -> Ok(FALSE, Tail(fixed), variable)
              [] Head(fixed) = 1 -> Ok(TRUE, Tail(fixed), variable)
              [] OTHER -> OutOfRangeForBoolean(Head(fixed))

\* BitList::from_bytes of ssz_types: the highest set bit is the sentinel, it
\* sits in the last byte, and the bits below it number at most N
BitList_from_bytes(t, bytes) ==
    LET n == Len(bytes)
        last == bytes[n]
        high == CHOOSE k \in 0..7 : last \div (2 ^ k) = 1
        len == 8 * (n - 1) + high
        bit(i) == (bytes[(i - 1) \div 8 + 1] \div (2 ^ ((i - 1) % 8))) % 2
    IN IF n = 0 THEN BytesInvalid
       ELSE IF last = 0 THEN BytesInvalid
       ELSE IF len > t.n THEN BytesInvalid
       ELSE Ok([i \in 1..len |-> bit(i)], <<>>, <<>>)

BitList_ssz_read(t, fixed, variable) ==
    LET r == BitList_from_bytes(t, variable)
    IN IF r.st = "ok" THEN Ok(r.val, fixed, <<>>) ELSE r

\* TryFromIter: VariableList::new takes at most N items, FixedVector::new
\* exactly N
try_from_iter(L, items) ==
    IF L.kind = "VariableList"
    THEN (IF Len(items) <= L.n THEN Ok(items, <<>>, <<>>) ELSE BytesInvalid)
    ELSE (IF Len(items) = L.n THEN Ok(items, <<>>, <<>>) ELSE BytesInvalid)

RECURSIVE decode_chunks_LastError(_, _, _)
\* the chunk decode going on after a failure and reporting the last one
decode_chunks_LastError(T, bytes, fl) ==
    IF Len(bytes) = 0 THEN Ok(<<>>, <<>>, <<>>)
    ELSE LET k == IF Len(bytes) < fl THEN Len(bytes) ELSE fl
             r == from_ssz_bytes(T, Take(bytes, k))
             rest == decode_chunks_LastError(T, Drop(bytes, k), fl)
         IN IF rest.st /= "ok" THEN rest
            ELSE IF r.st /= "ok" THEN r
            ELSE Ok(<<r.val>> \o rest.val, <<>>, <<>>)

RECURSIVE decode_chunks(_, _, _)
\* bytes.chunks(fl).map(|chunk| T::from_ssz_bytes(chunk)): the items up to
\* the first one that fails
decode_chunks(T, bytes, fl) ==
    IF Len(bytes) = 0 THEN Ok(<<>>, <<>>, <<>>)
    ELSE LET k == IF Len(bytes) < fl THEN Len(bytes) ELSE fl
             r == from_ssz_bytes(T, Take(bytes, k))
         IN IF r.st /= "ok" THEN r
            ELSE LET rest == decode_chunks(T, Drop(bytes, k), fl)
                 IN IF rest.st /= "ok" THEN rest
                    ELSE Ok(<<r.val>> \o rest.val, <<>>, <<>>)

\* the static-element arm shared by the sequences: chunk, decode, collect
read_static_items(L, bytes, fl) ==
    IF fl = 0 THEN Panic
    ELSE LET r == decode_chunks(L.sub[1], bytes, fl)
         IN IF r.st /= "ok" THEN r ELSE try_from_iter(L, r.val)

RECURSIVE decode_windows(_, _, _, _)
\* the tuple_windows scan: item i is cut from the front of var_items with the
\* length offsets[i+1] - offsets[i]
decode_windows(T, offsets, i, var_items) ==
    IF i >= Len(offsets) THEN Ok(<<>>, <<>>, var_items)
    ELSE LET d == usize_sub(offsets[i + 1], offsets[i])
         IN IF d.panic THEN Panic
            ELSE IF d.val > Len(var_items) THEN Panic
            ELSE LET r == from_ssz_bytes(T, Take(var_items, d.val))
                 IN IF r.st /= "ok" THEN r
                    ELSE LET rest == decode_windows(T, offsets, i + 1,
                                                    Drop(var_items, d.val))
                         IN IF rest.st /= "ok" THEN rest
                            ELSE Ok(<<r.val>> \o rest.val, <<>>, rest.variable)

ssz_decode_variable_length_items(L, var_offsets, var_items) ==
    IF Len(var_offsets) = 0 /\ Len(var_items) = 0
    THEN try_from_iter(L, <<>>)
    ELSE LET k == Len(var_offsets) \div BYTES_PER_LENGTH_OFFSET
             offsets ==
                 [i \in 1..k |->
                     from_le_bytes(SubSeq(var_offsets,
                                          BYTES_PER_LENGTH_OFFSET * (i - 1) + 1,
                                          BYTES_PER_LENGTH_OFFSET * i))]
                 \o <<Len(var_offsets) + Len(var_items)>>
             r == decode_windows(L.sub[1], offsets, 1, var_items)
         IN IF r.st /= "ok" THEN r ELSE try_from_iter(L, r.val)

\* the static arm of VariableList::ssz_read keeping the first N items of a
\* longer input
VariableList_read_static_Truncating(t, fixed, variable) ==
    LET fl == ssz_fixed_len(t.sub[1])
        max_len == t.n
        all_items == Len(variable) \div fl
        num_items == IF all_items > max_len THEN max_len ELSE all_items
        r == read_static_items(t, Take(variable, num_items * fl), fl)
    IN IF fl = 0 THEN Err(DecodeError("ZeroLengthItem", 0, 0))
       ELSE IF r.st = "ok"
            THEN Ok(r.val, fixed, Drop(variable, num_items * fl))
            ELSE r

\* the static arm of VariableList::ssz_read
VariableList_read_static(t, fixed, variable) ==
    LET fl == ssz_fixed_len(t.sub[1])
        max_len == t.n
        num_items == Len(variable) \div fl
        r == read_static_items(t, Take(variable, num_items * fl), fl)
    IN IF fl = 0 THEN Err(DecodeError("ZeroLengthItem", 0, 0))
       ELSE IF num_items > max_len THEN BytesInvalid
       ELSE IF r.st = "ok"
            THEN Ok(r.val, fixed, Drop(variable, num_items * fl))
            ELSE r

\* the variable arm of VariableList::ssz_read
VariableList_read_variable(t, fixed, variable) ==
    LET var_offsets == variable
        max_len == t.n
        first == read_offset_from_buf(Take(var_offsets, BYTES_PER_LENGTH_OFFSET))
        first_offset == first.val
        sane == sanitize_offset(first_offset, None,
                                Len(Drop(var_offsets, BYTES_PER_LENGTH_OFFSET)),
                                Some(first_offset))
        num_items == first_offset \div BYTES_PER_LENGTH_OFFSET
        r == ssz_decode_variable_length_items(
                 t, Take(var_offsets, num_items * BYTES_PER_LENGTH_OFFSET),
                 Drop(var_offsets, num_items * BYTES_PER_LENGTH_OFFSET))
    IN IF Len(var_offsets) < BYTES_PER_LENGTH_OFFSET THEN Panic
       ELSE IF first.st /= "ok" THEN first
       ELSE IF sane.st /= "ok" THEN sane
       ELSE IF first_offset % BYTES_PER_LENGTH_OFFSET /= 0
               \/ first_offset < BYTES_PER_LENGTH_OFFSET
       THEN Err(DecodeError("InvalidListFixedBytesLen", first_offset, 0))
       ELSE IF num_items > max_len THEN BytesInvalid
       ELSE IF num_items * BYTES_PER_LENGTH_OFFSET > Len(var_offsets) THEN Panic
       ELSE IF r.st = "ok" THEN Ok(r.val, fixed, <<>>)
       ELSE r

\* VariableList::ssz_read without the arm for an empty variable region
VariableList_ssz_read_NoEmptyArm(t, fixed, variable) ==
    IF is_ssz_static(t.sub[1])
    THEN VariableList_read_static(t, fixed, variable)
    ELSE VariableList_read_variable(t, fixed, variable)

VariableList_ssz_read(t, fixed, variable) ==
    IF Len(variable) = 0 THEN Ok(<<>>, fixed, variable)
    ELSE IF is_ssz_static(t.sub[1])
    THEN VariableList_read_static(t, fixed, variable)
    ELSE VariableList_read_variable(t, fixed, variable)

\* FixedVector::ssz_read that takes the static arm only when the fixed bytes
\* number exactly len * T::ssz_fixed_len()
FixedVector_ssz_read_ExactLength(t, fixed, variable) ==
    LET len == t.n
        fl == ssz_fixed_len(t.sub[1])
        rs == read_static_items(t, fixed, fl)
    IN IF Len(fixed) /= len * fl \/ ~is_ssz_static(t.sub[1]) THEN BytesInvalid
       ELSE IF rs.st = "ok" THEN Ok(rs.val, <<>>, variable)
       ELSE rs

FixedVector_ssz_read(t, fixed, variable) ==
    LET len == t.n
        fl == ssz_fixed_len(t.sub[1])
        rs == read_static_items(t, Take(fixed, len * fl), fl)
        rv == ssz_decode_variable_length_items(
                  t, Take(variable, len * BYTES_PER_LENGTH_OFFSET),
                  Drop(variable, len * BYTES_PER_LENGTH_OFFSET))
    IN IF Len(fixed) = 0 /\ Len(variable) = 0
       THEN (IF len = 0 THEN Ok(<<>>, fixed, variable) ELSE BytesInvalid)
       ELSE IF is_ssz_static(t.sub[1])
       THEN (IF Len(fixed) < len * fl THEN BytesInvalid
             ELSE IF rs.st = "ok"
                  THEN Ok(rs.val, Drop(fixed, len * fl), variable)
                  ELSE rs)
       ELSE (IF len * BYTES_PER_LENGTH_OFFSET > Len(variable) THEN Panic
             ELSE IF rv.st = "ok" THEN Ok(rv.val, fixed, <<>>)
             ELSE rv)

(***************************************************************************)
(* The derived container codec, decode side.                               *)
(***************************************************************************)
RECURSIVE read_fields(_, _, _)
\* Ok(Self { #( #ident: <#ty>::ssz_read(fixed_bytes, variable_bytes)?, )* })
read_fields(fields, fixed, variable) ==
    IF Len(fields) = 0 THEN Ok(<<>>, fixed, variable)
    ELSE LET r == ssz_read(Head(fields), fixed, variable)
         IN IF r.st /= "ok" THEN r
            ELSE LET rest == read_fields(Tail(fields), r.fixed, r.variable)
                 IN IF rest.st /= "ok" THEN rest
                    ELSE Ok(<<r.val>> \o rest.val, rest.fixed, rest.variable)

\* the scan for `end` that never finds a next variable field
find_end_AlwaysNone(fields, start, fixed_cursor, fixed) ==
    Ok(None, <<>>, <<>>)

RECURSIVE find_end_StaticNotCounted(_, _, _, _)
\* the scan for `end` that leaves the static fields out of `start`
find_end_StaticNotCounted(fields, start, fixed_cursor, fixed) ==
    IF Len(fields) = 0 THEN Ok(None, <<>>, <<>>)
    ELSE IF is_ssz_static(Head(fields))
    THEN find_end_StaticNotCounted(Tail(fields), start, fixed_cursor, fixed)
    ELSE IF start >= fixed_cursor
    THEN LET index == start - fixed_cursor
         IN IF index + BYTES_PER_LENGTH_OFFSET > Len(fixed) THEN Panic
            ELSE Ok(Some(from_le_bytes(SubSeq(fixed, index + 1,
                             index + BYTES_PER_LENGTH_OFFSET))), <<>>, <<>>)
    ELSE find_end_StaticNotCounted(Tail(fields),
                                   start + BYTES_PER_LENGTH_OFFSET,
                                   fixed_cursor, fixed)

RECURSIVE find_end(_, _, _, _)
\* the scan for `end`: the offset in the header slot of the first variable
\* field at or after fixed_cursor, read relative to the fixed cursor
find_end(fields, start, fixed_cursor, fixed) ==
    IF Len(fields) = 0 THEN Ok(None, <<>>, <<>>)
    ELSE IF is_ssz_static(Head(fields))
    THEN find_end(Tail(fields), start + ssz_fixed_len(Head(fields)),
                  fixed_cursor, fixed)
    ELSE IF start >= fixed_cursor
    THEN LET index == start - fixed_cursor
         IN IF index + BYTES_PER_LENGTH_OFFSET > Len(fixed) THEN Panic
            ELSE Ok(Some(from_le_bytes(SubSeq(fixed, index + 1,
                             index + BYTES_PER_LENGTH_OFFSET))), <<>>, <<>>)
    ELSE find_end(Tail(fields), start + BYTES_PER_LENGTH_OFFSET,
                  fixed_cursor, fixed)

\* #read_stmts_var without variable_bytes.advance(field_len)
read_field_var_NoAdvance(fields, i, fixed, variable, fixed_cursor, end_of_buffer) ==
    LET T == fields[i]
        cursor == fixed_cursor + BYTES_PER_LENGTH_OFFSET
        begin == read_offset_from_buf(fixed)
        end == find_end(fields, 0, cursor, begin.fixed)
        field_len == usize_sub(IF end.val = None THEN end_of_buffer
                               ELSE end.val[1], begin.val)
        res == from_ssz_bytes(T, Take(variable, field_len.val))
    IN IF is_ssz_static(T) THEN ssz_read(T, fixed, variable)
       ELSE IF begin.st /= "ok" THEN begin
       ELSE IF end.st /= "ok" THEN end
       ELSE IF field_len.panic THEN Panic
       ELSE IF field_len.val > Len(variable)
       THEN InvalidByteLength(field_len.val, Len(variable))
       ELSE IF res.st /= "ok" THEN res
       ELSE Ok(res.val, begin.fixed, variable)

\* #read_stmts_var that leaves the offset it read in the fixed buffer
read_field_var_OffsetNotConsumed(fields, i, fixed, variable, fixed_cursor, end_of_buffer) ==
    LET T == fields[i]
        cursor == fixed_cursor + BYTES_PER_LENGTH_OFFSET
        begin == read_offset_from_buf(fixed)
        end == find_end(fields, 0, cursor, begin.fixed)
        field_len == usize_sub(IF end.val = None THEN end_of_buffer
                               ELSE end.val[1], begin.val)
        res == from_ssz_bytes(T, Take(variable, field_len.val))
    IN IF is_ssz_static(T) THEN ssz_read(T, fixed, variable)
       ELSE IF begin.st /= "ok" THEN begin
       ELSE IF end.st /= "ok" THEN end
       ELSE IF field_len.panic THEN Panic
       ELSE IF field_len.val > Len(variable)
       THEN InvalidByteLength(field_len.val, Len(variable))
       ELSE IF res.st /= "ok" THEN res
       ELSE Ok(res.val, fixed, Drop(variable, field_len.val))

\* one #read_stmts_var: a static field is read in place, a variable field
\* from the span its offset and the next one name
read_field_var(fields, i, fixed, variable, fixed_cursor, end_of_buffer) ==
    LET T == fields[i]
        cursor == fixed_cursor + BYTES_PER_LENGTH_OFFSET
        begin == read_offset_from_buf(fixed)
        end == find_end(fields, 0, cursor, begin.fixed)
        field_len == usize_sub(IF end.val = None THEN end_of_buffer
                               ELSE end.val[1], begin.val)
        res == from_ssz_bytes(T, Take(variable, field_len.val))
    IN IF is_ssz_static(T) THEN ssz_read(T, fixed, variable)
       ELSE IF begin.st /= "ok" THEN begin
       ELSE IF end.st /= "ok" THEN end
       ELSE IF field_len.panic THEN Panic
       ELSE IF field_len.val > Len(variable)
       THEN InvalidByteLength(field_len.val, Len(variable))
       ELSE IF res.st /= "ok" THEN res
       ELSE Ok(res.val, begin.fixed, Drop(variable, field_len.val))

RECURSIVE read_fields_var(_, _, _, _, _, _)
\* Ok(Self { #( #read_stmts_var, )* })
read_fields_var(fields, i, fixed, variable, fixed_cursor, end_of_buffer) ==
    IF i > Len(fields) THEN Ok(<<>>, fixed, variable)
    ELSE LET r == read_field_var(fields, i, fixed, variable, fixed_cursor,
                                 end_of_buffer)
             cursor == fixed_cursor
                       + (IF is_ssz_static(fields[i])
                          THEN ssz_fixed_len(fields[i])
                          ELSE BYTES_PER_LENGTH_OFFSET)
         IN IF r.st /= "ok" THEN r
            ELSE LET rest == read_fields_var(fields, i + 1, r.fixed,
                                             r.variable, cursor, end_of_buffer)
                 IN IF rest.st /= "ok" THEN rest
                    ELSE Ok(<<r.val>> \o rest.val, rest.fixed, rest.variable)

RECURSIVE read_prefix(_, _, _, _, _)
\* the struct literal of the variable arm evaluated through field k: the two
\* buffers and fixed_cursor as the k-th #read_stmts_var leaves them
read_prefix(fields, k, fixed, variable, end_of_buffer) ==
    IF k = 0
    THEN [st |-> "ok", fixed |-> fixed, variable |-> variable,
          fixed_cursor |-> 0]
    ELSE LET p == read_prefix(fields, k - 1, fixed, variable, end_of_buffer)
             r == read_field_var(fields, k, p.fixed, p.variable,
                                 p.fixed_cursor, end_of_buffer)
         IN IF p.st /= "ok" THEN p
            ELSE [st |-> r.st, fixed |-> r.fixed, variable |-> r.variable,
                  fixed_cursor |->
                      p.fixed_cursor
                      + (IF is_ssz_static(fields[k])
                         THEN ssz_fixed_len(fields[k])
                         ELSE BYTES_PER_LENGTH_OFFSET)]

derive_ssz_read(t, fixed, variable) ==
    IF derive_is_ssz_static(t)
    THEN (IF Len(fixed) < derive_ssz_fixed_len(t)
          THEN InvalidByteLength(Len(fixed), derive_ssz_fixed_len(t))
          ELSE read_fields(t.sub, fixed, variable))
    ELSE LET end_of_buffer == Len(fixed) + Len(variable)
         IN read_fields_var(t.sub, 1, fixed, variable, 0, end_of_buffer)

\* the derived from_ssz_bytes splitting at ssz_fixed_len() of the container
derive_from_ssz_bytes_SplitAtFixedLen(t, bytes) ==
    LET len == derive_ssz_fixed_len(t)
    IN IF len > Len(bytes) THEN InvalidByteLength(Len(bytes), len)
       ELSE ssz_read(t, Take(bytes, len), Drop(bytes, len))

derive_from_ssz_bytes(t, bytes) ==
    LET len == sum_fixed_len(t.sub)
    IN IF len > Len(bytes) THEN InvalidByteLength(Len(bytes), len)
       ELSE ssz_read(t, Take(bytes, len), Drop(bytes, len))

\* the provided from_ssz_bytes of the trait: a static type is read from the
\* fixed region, a variable one from the variable region
default_from_ssz_bytes(t, bytes) ==
    IF is_ssz_static(t)
    THEN (IF Len(bytes) < ssz_fixed_len(t)
          THEN InvalidByteLength(Len(bytes), ssz_fixed_len(t))
          ELSE ssz_read(t, Take(bytes, ssz_fixed_len(t)),
                        Drop(bytes, ssz_fixed_len(t))))
    ELSE ssz_read(t, <<>>, bytes)

ssz_read(t, fixed, variable) ==
    CASE t.kind = "u8" -> u8_ssz_read(fixed, variable)
      [] t.kind = "uint" -> uint_ssz_read(t, fixed, variable)
      [] t.kind = "bool" -> bool_ssz_read(fixed, variable)
      [] t.kind = "FixedBytes" -> FixedBytes_ssz_read(t, fixed, variable)
      [] t.kind = "BitList" -> BitList_ssz_read(t, fixed, variable)
      [] t.kind = "VariableList" -> VariableList_ssz_read(t, fixed, variable)
      [] t.kind = "FixedVector" -> FixedVector_ssz_read(t, fixed, variable)
      [] t.kind = "Container" -> derive_ssz_read(t, fixed, variable)

from_ssz_bytes(t, bytes) ==
    IF t.kind = "Container" THEN derive_from_ssz_bytes(t, bytes)
    ELSE default_from_ssz_bytes(t, bytes)

(***************************************************************************)
(* Decode side: the type-level sizes of SszDecode, which every impl states *)
(* a second time.                                                          *)
(***************************************************************************)
RECURSIVE SszDecode_is_ssz_static(_), SszDecode_ssz_fixed_len(_)
RECURSIVE SszDecode_ssz_max_len(_)

RECURSIVE SszDecode_all_static(_)
\* #( #static_stmts && )* true, over the decode side of the fields
SszDecode_all_static(fields) ==
    IF Len(fields) = 0 THEN TRUE
    ELSE SszDecode_is_ssz_static(Head(fields))
         /\ SszDecode_all_static(Tail(fields))

RECURSIVE SszDecode_sum_fixed_len(_)
\* let mut len = 0; #( len = len.checked_add(#fixed_len_stmts) )*
SszDecode_sum_fixed_len(fields) ==
    IF Len(fields) = 0 THEN 0
    ELSE SszDecode_ssz_fixed_len(Head(fields))
         + SszDecode_sum_fixed_len(Tail(fields))

RECURSIVE SszDecode_sum_max_len(_)
\* let mut len = 0; #( len = len.checked_add(#max_len_stmts) )*
SszDecode_sum_max_len(fields) ==
    IF Len(fields) = 0 THEN 0
    ELSE SszDecode_ssz_max_len(Head(fields))
         + SszDecode_sum_max_len(Tail(fields))

SszDecode_derive_is_ssz_static(t) == SszDecode_all_static(t.sub)

\* the decode side asks <Self as SszEncode>::is_ssz_static()
SszDecode_derive_ssz_fixed_len(t) ==
    IF derive_is_ssz_static(t) THEN SszDecode_sum_fixed_len(t.sub)
    ELSE BYTES_PER_LENGTH_OFFSET

SszDecode_derive_ssz_max_len(t) == SszDecode_sum_max_len(t.sub)

\* VariableList and FixedVector state the same ssz_max_len on the decode side
SszDecode_sequence_ssz_max_len(t) ==
    IF SszDecode_is_ssz_static(t.sub[1])
    THEN SszDecode_ssz_fixed_len(t.sub[1]) * t.n
    ELSE SszDecode_ssz_max_len(t.sub[1]) * t.n + BYTES_PER_LENGTH_OFFSET * t.n

SszDecode_FixedVector_ssz_fixed_len(t) ==
    IF SszDecode_is_ssz_static(t.sub[1])
    THEN SszDecode_ssz_fixed_len(t.sub[1]) * t.n
    ELSE BYTES_PER_LENGTH_OFFSET

SszDecode_BitList_ssz_max_len(t) ==
    BYTES_PER_LENGTH_OFFSET + Max(1, (t.n + 7) \div 8)

SszDecode_is_ssz_static(t) ==
    CASE t.kind \in {"u8", "uint", "bool", "FixedBytes"} -> TRUE
      [] t.kind \in {"BitList", "VariableList"} -> FALSE
      [] t.kind = "FixedVector" -> SszDecode_is_ssz_static(t.sub[1])
      [] t.kind = "Container" -> SszDecode_derive_is_ssz_static(t)

SszDecode_ssz_fixed_len(t) ==
    CASE t.kind = "u8" -> 1
      [] t.kind = "uint" -> t.n \div 8
      [] t.kind = "bool" -> 1
      [] t.kind = "FixedBytes" -> t.n
      [] t.kind \in {"BitList", "VariableList"} -> BYTES_PER_LENGTH_OFFSET
      [] t.kind = "FixedVector" -> SszDecode_FixedVector_ssz_fixed_len(t)
      [] t.kind = "Container" -> SszDecode_derive_ssz_fixed_len(t)

SszDecode_ssz_max_len(t) ==
    CASE t.kind = "u8" -> 1
      [] t.kind = "uint" -> t.n \div 8
      [] t.kind = "bool" -> 1
      [] t.kind = "FixedBytes" -> t.n
      [] t.kind = "BitList" -> SszDecode_BitList_ssz_max_len(t)
      [] t.kind \in {"VariableList", "FixedVector"} ->
            SszDecode_sequence_ssz_max_len(t)
      [] t.kind = "Container" -> SszDecode_derive_ssz_max_len(t)

(***************************************************************************)
(* The values and types the harness draws from.                            *)
(***************************************************************************)
RECURSIVE SeqsOfLen(_, _)
SeqsOfLen(S, n) ==
    IF n = 0 THEN {<<>>}
    ELSE {<<x>> \o s : x \in S, s \in SeqsOfLen(S, n - 1)}

SeqsUpTo(S, n) == UNION {SeqsOfLen(S, k) : k \in 0..n}

RECURSIVE Values(_, _)
RECURSIVE FieldValues(_, _)
FieldValues(fields, u8s) ==
    IF Len(fields) = 0 THEN {<<>>}
    ELSE {<<x>> \o s : x \in Values(Head(fields), u8s),
                       s \in FieldValues(Tail(fields), u8s)}

\* the values of type t whose bytes are drawn from u8s
Values(t, u8s) ==
    CASE t.kind = "u8" -> u8s
      [] t.kind = "uint" -> {b + 256 * (b + 1) : b \in u8s}
      [] t.kind = "bool" -> BOOLEAN
      [] t.kind = "FixedBytes" -> SeqsOfLen(u8s, t.n)
      [] t.kind = "BitList" ->
            {[i \in 1..k |-> b] : k \in 0..t.n, b \in {0, 1}}
      [] t.kind = "VariableList" -> SeqsUpTo(Values(t.sub[1], u8s), t.n)
      [] t.kind = "FixedVector" -> SeqsOfLen(Values(t.sub[1], u8s), t.n)
      [] t.kind = "Container" -> FieldValues(t.sub, u8s)

L8 == VariableList(U8, MaxN)
L16 == VariableList(U16, MaxN)
ListOfLists == VariableList(VariableList(U8, MaxInner), MaxN)
VectorOfLists == FixedVector(VariableList(U8, MaxInner), VecLen)
V8 == FixedVector(U8, VecLen)
\* the container of the scenario: (flag: bool, data: List<u8, 4>)
FlagData == Container(<<Bool, VariableList(U8, 4)>>)

Case(t, u8s) == [t |-> t, u8s |-> u8s]

Cases ==
    {Case(U8, {1, 2}), Case(U16, {1, 2}), Case(Bool, {1}),
     Case(FixedBytes(BytesN), {1, 2}),
     Case(L8, {1, 2}), Case(L16, {1, 2}), Case(V8, {1, 2}),
     Case(ListOfLists, {1}), Case(VectorOfLists, {1}),
     Case(BitList(MaxBits), {1}),
     Case(FlagData, {1, 2, 3}),
     Case(Container(<<>>), {1}),
     Case(VariableList(Container(<<>>), MaxN), {1}),
     Case(Container(<<U8, ListOfLists>>), {1}),
     Case(Container(<<V8, L8>>), {1}),
     Case(Container(<<U8, FixedVector(Container(<<>>), VecLen)>>), {1}),
     Case(FixedVector(Container(<<>>), VecLen), {1}),
     Case(Container(<<U8, Bool>>), {1, 2}),
     Case(Container(<<U16, U8, V8>>), {1}),
     Case(Container(<<L8, Bool>>), {1, 2}),
     Case(Container(<<L8, L16>>), {1, 2}),
     Case(Container(<<U16, L16, L8>>), {1}),
     Case(Container(<<L8, U8, L16>>), {1}),
     Case(Container(<<L16, L8, L8>>), {1}),
     Case(Container(<<U8, Container(<<L8, Bool>>), L8>>), {1}),
     Case(VariableList(Container(<<U8, Bool>>), MaxN), {1}),
     Case(Container(<<VariableList(Bool, MaxN), Bool>>), {1}),
     Case(FixedVector(VariableList(Bool, 1), VecLen), {1})}

(***************************************************************************)
(* The harness.                                                            *)
(***************************************************************************)
\* the byte values a corrupted boolean is given
NotBoolean == {2, 3}

\* the bytes that may follow an encoding
SurplusBytes == {0, 7}

NoTamper == [op |-> "none", pos |-> 0, old |-> 0, new |-> 0]

NoResult == [st |-> "none", val |-> <<>>, err |-> NoError]

NoCursors == [fixed |-> <<>>, variable |-> <<>>]

NotSized ==
    [op |-> "none", ty |-> Container(<<>>), before |-> usize(0),
     bytes |-> <<>>, st |-> "none", val |-> usize(0), wrapped |-> FALSE]

\* types whose maximum lengths reach 2^22, 2^44, 2^63, 2^64 and 2^66 bytes
Nest(T, k) == VariableList(VariableList(VariableList(T, Huge), Huge), k)
WideTypes ==
    {VariableList(U8, Huge), VariableList(VariableList(U16, Huge), Huge),
     Nest(U8, Huge \div 8), Nest(U16, Huge \div 8), Nest(U8, Huge),
     FixedVector(Nest(U8, Huge \div 8), 2),
     Container(<<Nest(U8, Huge \div 8), U16>>),
     Container(<<Nest(U8, Huge \div 8), Nest(U8, Huge \div 8)>>)}

\* write cursors: 0, 9, 2^32, 2^32 + 4 and 2^64 - 1
WideCursors ==
    {usize(0), usize(9), <<0, 0, 0, 0, 1, 0, 0, 0>>,
     <<4, 0, 0, 0, 1, 0, 0, 0>>,
     <<255, 255, 255, 255, 255, 255, 255, 255>>}

Init ==
    /\ \E c \in Cases : ty = c.t /\ value \in Values(c.t, c.u8s)
    /\ overflow_checks \in BOOLEAN
    /\ buf = <<>>
    /\ input = <<>>
    /\ tamper = NoTamper
    /\ dty = ty
    /\ result = NoResult
    /\ cursors = NoCursors
    /\ sized = NotSized
    /\ pc = "start"

RECURSIVE header_slots(_, _)
\* the header positions (from 0) of the offsets of a container's variable fields
header_slots(fields, start) ==
    IF Len(fields) = 0 THEN {}
    ELSE IF is_ssz_static(Head(fields))
    THEN header_slots(Tail(fields), start + ssz_fixed_len(Head(fields)))
    ELSE {start} \cup header_slots(Tail(fields),
                                   start + BYTES_PER_LENGTH_OFFSET)

\* the positions (from 0) of the offsets in the top level of an encoding
OffsetSlots(t, v) ==
    CASE t.kind = "Container" -> header_slots(t.sub, 0)
      [] t.kind \in {"VariableList", "FixedVector"}
         /\ ~is_ssz_static(t.sub[1]) ->
            {BYTES_PER_LENGTH_OFFSET * (i - 1) : i \in 1..Len(v)}
      [] OTHER -> {}

RECURSIVE TailsLen(_, _)
\* the bytes the tails of the variable fields among `fields` take
TailsLen(fields, vs) ==
    IF Len(fields) = 0 THEN 0
    ELSE (IF is_ssz_static(Head(fields)) THEN 0
          ELSE Len(ssz_write(Head(fields), Head(vs))))
         + TailsLen(Tail(fields), Tail(vs))

\* where field i's header contribution and tail begin, from the start of the
\* container's encoding
HeaderPos(t, i) == sum_fixed_len(Take(t.sub, i - 1))
TailPos(t, v, i) ==
    sum_fixed_len(t.sub) + TailsLen(Take(t.sub, i - 1), Take(v, i - 1))

RECURSIVE BoolLeaves(_, _, _)
RECURSIVE BoolLeavesFrom(_, _, _, _)
\* the positions (from 0) of the boolean bytes in the encoding of v that
\* begins at base, in the order the items are declared
BoolLeaves(t, v, base) ==
    CASE t.kind = "bool" -> <<base>>
      [] t.kind \in {"VariableList", "FixedVector", "Container"} ->
            BoolLeavesFrom(t, v, base, 1)
      [] OTHER -> <<>>

BoolLeavesFrom(t, v, base, i) ==
    IF i > Len(v) THEN <<>>
    ELSE LET T == IF t.kind = "Container" THEN t.sub[i] ELSE t.sub[1]
             at == CASE t.kind = "Container" /\ is_ssz_static(T) ->
                          HeaderPos(t, i)
                     [] t.kind = "Container" -> TailPos(t, v, i)
                     [] is_ssz_static(T) -> (i - 1) * ssz_fixed_len(T)
                     [] OTHER -> BYTES_PER_LENGTH_OFFSET * Len(v)
                                 + Len(write_items(T, Take(v, i - 1)))
         IN BoolLeaves(T, v[i], base + at) \o BoolLeavesFrom(t, v, base, i + 1)

Range(f) == {f[i] : i \in DOMAIN f}

OffsetAt(bytes, pos) ==
    from_le_bytes(SubSeq(bytes, pos + 1, pos + BYTES_PER_LENGTH_OFFSET))

\* the caller encodes the value
Encode ==
    /\ pc = "start"
    /\ buf' = ssz_write(ty, value)
    /\ input' = buf'
    /\ pc' = "encoded"
    /\ UNCHANGED <<ty, value, overflow_checks, tamper, dty, result,
                   cursors, sized>>

\* the last k bytes are lost on the way
Truncate(k) ==
    /\ pc = "encoded"
    /\ input' = Take(buf, Len(buf) - k)
    /\ tamper' = [op |-> "truncate", pos |-> k, old |-> Len(buf),
                  new |-> Len(buf) - k]
    /\ pc' = "tampered"
    /\ UNCHANGED <<ty, value, overflow_checks, buf, dty, result,
                   cursors, sized>>

\* one offset of the top level is overwritten
SetOffset(pos, new) ==
    /\ pc = "encoded"
    /\ new /= OffsetAt(buf, pos)
    /\ input' = Take(buf, pos) \o put_offset(new)
                \o Drop(buf, pos + BYTES_PER_LENGTH_OFFSET)
    /\ tamper' = [op |-> "offset", pos |-> pos, old |-> OffsetAt(buf, pos),
                  new |-> new]
    /\ pc' = "tampered"
    /\ UNCHANGED <<ty, value, overflow_checks, buf, dty, result,
                   cursors, sized>>

\* the byte of one boolean is overwritten with a value that is no boolean
Corrupt(pos, b) ==
    /\ pc = "encoded"
    /\ input' = [buf EXCEPT ![pos + 1] = b]
    /\ tamper' = [op |-> "corrupt", pos |-> pos, old |-> buf[pos + 1],
                  new |-> b]
    /\ pc' = "tampered"
    /\ UNCHANGED <<ty, value, overflow_checks, buf, dty, result,
                   cursors, sized>>

\* the byte of a second boolean is overwritten with another such value
CorruptAgain(pos, b) ==
    /\ pc = "tampered"
    /\ tamper.op = "corrupt"
    /\ pos /= tamper.pos
    /\ b /= tamper.new
    /\ input' = [input EXCEPT ![pos + 1] = b]
    /\ tamper' = [op |-> "corrupt2", pos |-> pos, old |-> input[pos + 1],
                  new |-> b]
    /\ UNCHANGED <<ty, value, overflow_checks, buf, dty, result, pc,
                   cursors, sized>>

\* a single raw byte arrives for a one-byte leaf
Receive(b) ==
    /\ pc = "start"
    /\ ty.kind \in {"u8", "bool"}
    /\ input' = <<b>>
    /\ tamper' = [op |-> "raw", pos |-> 0, old |-> 0, new |-> b]
    /\ pc' = "tampered"
    /\ UNCHANGED <<ty, value, overflow_checks, buf, dty, result,
                   cursors, sized>>

\* one more byte follows the encoding in the buffer
Extend(b) ==
    /\ pc = "encoded"
    /\ input' = buf \o <<b>>
    /\ tamper' = [op |-> "append", pos |-> Len(buf), old |-> 0, new |-> b]
    /\ pc' = "tampered"
    /\ UNCHANGED <<ty, value, overflow_checks, buf, dty, result, cursors, sized>>

\* the types the receiver may decode the bytes as: the sender's type, or the
\* same list with a capacity one smaller
DecodeTypes ==
    {ty} \cup (IF pc = "encoded" /\ ty.kind = "VariableList" /\ ty.n >= 1
               THEN {VariableList(ty.sub[1], ty.n - 1)} ELSE {})

\* what the caller sees of a read: the status, the value and the error
Returned(r) == [st |-> r.st, val |-> r.val, err |-> r.err]

\* the receiver decodes the bytes
Decode(d) ==
    /\ pc \in {"encoded", "tampered"}
    /\ dty' = d
    /\ result' = Returned(from_ssz_bytes(d, input))
    /\ pc' = "decoded"
    /\ UNCHANGED <<ty, value, overflow_checks, buf, input, tamper,
                   cursors, sized>>

\* the two buffers as a successful read leaves them
Remaining(r) == [fixed |-> r.fixed, variable |-> r.variable]

\* the bytes are the fixed region an enclosing reader holds, and it reads a
\* value of the static type d from the front of it:
\* <#ty>::ssz_read(fixed_bytes, variable_bytes)
Read(d) ==
    /\ pc \in {"encoded", "tampered"}
    /\ is_ssz_static(d)
    /\ dty' = d
    /\ result' = Returned(ssz_read(d, input, <<>>))
    /\ cursors' = Remaining(ssz_read(d, input, <<>>))
    /\ pc' = "read"
    /\ UNCHANGED <<ty, value, overflow_checks, buf, input, tamper, sized>>

\* the record of a length computed for type t
Measured(t, len) ==
    [op |-> "ssz_max_len", ty |-> t, before |-> usize(0), bytes |-> <<>>,
     st |-> len.st, val |-> len.val, wrapped |-> len.wrapped]

\* the record of a write of the fixed part with the cursor at offset
Advanced(offset, w) ==
    [op |-> "ssz_write_fixed", ty |-> ty, before |-> offset,
     bytes |-> w.bytes, st |-> w.st, val |-> w.offset, wrapped |-> w.wrapped]

\* the maximum length of a type is asked for
Measure(t) ==
    /\ pc = "start"
    /\ sized' = Measured(t, usize_ssz_max_len(t))
    /\ pc' = "sized"
    /\ UNCHANGED <<ty, value, overflow_checks, buf, input, tamper, dty,
                   result, cursors>>

\* an enclosing writer whose cursor stands at offset writes the fixed part of
\* the variable value
WriteFixed(offset) ==
    /\ pc = "start"
    /\ ~is_ssz_static(ty)
    /\ sized' = Advanced(offset, usize_ssz_write_fixed(ty, value, offset))
    /\ pc' = "sized"
    /\ UNCHANGED <<ty, value, overflow_checks, buf, input, tamper, dty,
                   result, cursors>>

Next ==
    \/ Encode
    \/ \E k \in 1..Len(buf) : Truncate(k)
    \/ \E pos \in OffsetSlots(ty, value) :
          \E new \in 0..(Len(buf) + 1) : SetOffset(pos, new)
    \/ \E pos \in Range(BoolLeaves(ty, value, 0)) :
          \E b \in NotBoolean : Corrupt(pos, b)
    \/ \E pos \in Range(BoolLeaves(ty, value, 0)) :
          \E b \in NotBoolean : CorruptAgain(pos, b)
    \/ \E b \in 0..255 : Receive(b)
    \/ \E b \in SurplusBytes : Extend(b)
    \/ \E d \in DecodeTypes : Decode(d)
    \/ \E d \in DecodeTypes : Read(d)
    \/ \E t \in WideTypes : Measure(t)
    \/ \E offset \in WideCursors : WriteFixed(offset)

Spec == Init /\ [][Next]_vars

(***************************************************************************)
(* The claims.                                                             *)
(***************************************************************************)
\* the bytes were encoded by ssz_write, not received raw
Encoded == pc \notin {"start", "sized"} /\ tamper.op /= "raw"

\* the decoder was given exactly the bytes ssz_write produced, as the same type
Faithful == pc = "decoded" /\ tamper.op = "none" /\ dty = ty

\* a list or vector whose elements are of variable size
IsVariableSequence(t) ==
    t.kind \in {"VariableList", "FixedVector"} /\ ~is_ssz_static(t.sub[1])

\* C1: round trip of bounded lists of variable-size elements: decoding the
\* bytes ssz_write(v) produced, read over the variable region, returns Ok(v),
\* also when the elements' payload is shorter than 4 bytes.
C1_RoundTripListOfVariable ==
    (Faithful /\ ty.kind = "VariableList" /\ IsVariableSequence(ty))
        => (result.st = "ok" /\ result.val = value)

\* a container of static leaf fields and bounded lists of static elements
IsFlatContainer(t) ==
    /\ t.kind = "Container"
    /\ \A i \in 1..Len(t.sub) :
          \/ t.sub[i].kind \in {"u8", "uint", "bool"}
          \/ /\ t.sub[i].kind = "VariableList"
             /\ t.sub[i].sub[1].kind \in {"u8", "uint", "bool"}

\* C2: round trip of containers of static leaf fields and bounded lists of
\* static elements, in every field order: from_ssz_bytes(ssz_write(v)) = Ok(v).
C2_ContainerRoundTrip ==
    (Faithful /\ IsFlatContainer(ty))
        => (result.st = "ok" /\ result.val = value)

C2_Witness ==
    /\ Faithful
    /\ ty = Container(<<L8, U8, L16>>)
    /\ Len(value[1]) > 0
    /\ Len(value[3]) > 0
    /\ result.st = "ok"

\* C3: the number of bytes ssz_write(v) emits equals sszb_bytes_len(v), for
\* leaves, sequences of static and of variable elements, and containers.
C3_WrittenLengthIsBytesLen ==
    Encoded => Len(buf) = sszb_bytes_len(ty, value)

C3_Witness ==
    /\ pc = "encoded"
    /\ ty = ListOfLists
    /\ Len(value) = MaxN
    /\ Len(value[1]) > 0
    /\ Len(buf) = sszb_bytes_len(ty, value)

\* C4: ssz_max_len() bounds the encoded size from above: for every value v
\* within the capacity of its type, sszb_bytes_len(v) <= ssz_max_len().
C4_MaxLenIsUpperBound ==
    Encoded => sszb_bytes_len(ty, value) <= ssz_max_len(ty)

\* C5: container layout: the fixed region holds, per field in declared
\* order, the field's bytes (static) or a 4-byte little-endian offset
\* (variable); the tails follow in declared order; every offset is the
\* position of its field's tail from the start of the container's encoding.
\* (true, [1,2,3]) as (bool, List<u8,4>) is 01 05 00 00 00 01 02 03.
C5_ContainerLayout ==
    (Encoded /\ ty.kind = "Container") =>
        /\ \A i \in 1..Len(ty.sub) :
              LET T == ty.sub[i]
                  h == HeaderPos(ty, i)
                  p == TailPos(ty, value, i)
                  w == ssz_write(T, value[i])
              IN IF is_ssz_static(T)
                 THEN SubSeq(buf, h + 1, h + ssz_fixed_len(T)) = w
                 ELSE /\ OffsetAt(buf, h) = p
                      /\ SubSeq(buf, p + 1, p + Len(w)) = w
        /\ Len(buf) = TailPos(ty, value, Len(ty.sub) + 1)
        /\ (ty = FlagData /\ value = <<TRUE, <<1, 2, 3>>>>)
              => buf = <<1, 5, 0, 0, 0, 1, 2, 3>>

C5_Witness ==
    /\ pc = "encoded"
    /\ ty = FlagData
    /\ value = <<TRUE, <<1, 2, 3>>>>
    /\ buf = <<1, 5, 0, 0, 0, 1, 2, 3>>

\* C6: truncation rejection: decoding a valid encoding with its last k > 0
\* bytes cut off returns a decode error and never Ok; stated for the case the
\* claim singles out, a bounded list of static elements left with a length
\* that is not a multiple of the element length.
C6_TruncationRejected ==
    (pc = "decoded" /\ tamper.op = "truncate" /\ dty = ty
     /\ ty.kind = "VariableList" /\ is_ssz_static(ty.sub[1])
     /\ Len(input) % ssz_fixed_len(ty.sub[1]) /= 0)
        => result.st = "err"

\* C7: decreasing one offset-table entry of a valid encoding of a list or
\* vector of variable-size elements makes decode return a decode error: no
\* Ok, no abort; stated for the case the claim singles out, an entry
\* decreased below the entry before it (a pair with start > end).
C7_DecreasedOffsetRejected ==
    (pc = "decoded" /\ tamper.op = "offset" /\ tamper.new < tamper.old
     /\ IsVariableSequence(ty) /\ dty = ty
     /\ tamper.pos >= BYTES_PER_LENGTH_OFFSET
     /\ tamper.new < OffsetAt(input, tamper.pos - BYTES_PER_LENGTH_OFFSET))
        => result.st = "err"

\* the offsets in the header of a variable container's bytes, in field order,
\* followed by the total length
SpanBounds(t, bytes) ==
    LET slots == header_slots(t.sub, 0)
        ordered == [k \in 1..Cardinality(slots) |->
                      CHOOSE p \in slots :
                          Cardinality({q \in slots : q < p}) = k - 1]
    IN [k \in 1..Cardinality(slots) |-> OffsetAt(bytes, ordered[k])]
       \o <<Len(bytes)>>

\* some variable field's offset `begin` is greater than its `end`
HasInvertedSpan(t, bytes) ==
    /\ Len(bytes) >= sum_fixed_len(t.sub)
    /\ LET b == SpanBounds(t, bytes)
       IN \E k \in 1..(Len(b) - 1) : b[k] > b[k + 1]

\* C8: when a variable field's offset `begin` of a variable container is
\* greater than its `end`, decode returns a DecodeError; it does not abort.
C8_InvertedSpanIsError ==
    (pc = "decoded" /\ dty.kind = "Container" /\ ~is_ssz_static(dty)
     /\ HasInvertedSpan(dty, input))
        => result.st = "err"

\* the input implies N+1 items for a list bounded at N
ImpliesOneTooMany(t, bytes) ==
    IF is_ssz_static(t.sub[1])
    THEN /\ ssz_fixed_len(t.sub[1]) > 0
         /\ Len(bytes) >= (t.n + 1) * ssz_fixed_len(t.sub[1])
    ELSE /\ Len(bytes) >= BYTES_PER_LENGTH_OFFSET
         /\ OffsetAt(bytes, 0) = BYTES_PER_LENGTH_OFFSET * (t.n + 1)

\* C9: a list bounded at N never decodes to more than N items, and an input
\* implying N+1 items is a decode error, not a list cut to N items.
C9_CapacityRejected ==
    (pc = "decoded" /\ dty.kind = "VariableList") =>
        /\ result.st = "ok" => Len(result.val) <= dty.n
        /\ ImpliesOneTooMany(dty, input) => result.st = "err"

C9_Witness ==
    /\ pc = "decoded"
    /\ dty = VariableList(VariableList(U8, MaxInner), MaxN - 1)
    /\ ImpliesOneTooMany(dty, input)
    /\ result.st = "err"
    /\ result.err.kind = "BytesInvalid"

\* C10: a boolean decodes from byte 0 to false and from byte 1 to true, both
\* re-encode to the same byte, and every byte 2..255 is BytesInvalid.
C10_BooleanDomain ==
    (pc = "decoded" /\ dty = Bool /\ tamper.op = "raw") =>
        LET b == input[1]
        IN /\ b = 0 => (result.st = "ok" /\ result.val = FALSE
                        /\ ssz_write(Bool, result.val) = input)
           /\ b = 1 => (result.st = "ok" /\ result.val = TRUE
                        /\ ssz_write(Bool, result.val) = input)
           /\ b >= 2 => (result.st = "err"
                         /\ result.err.kind = "BytesInvalid")

C10_Witness ==
    /\ pc = "decoded"
    /\ dty = Bool
    /\ tamper.op = "raw"
    /\ input = <<255>>
    /\ result.st = "err"
    /\ result.err.kind = "BytesInvalid"

\* C11: from_ssz_bytes of a container takes the sum of the fields' fixed
\* lengths as the header length; shorter input is InvalidByteLength{len:
\* len(bytes), expected: header length}; otherwise the bytes are split at
\* exactly the header length and the result is that of ssz_read on the halves.
C11_ContainerEntryPoint ==
    (pc = "decoded" /\ dty.kind = "Container") =>
        LET h == SszDecode_sum_fixed_len(dty.sub)
        IN IF Len(input) < h
           THEN result = Returned(InvalidByteLength(Len(input), h))
           ELSE result = Returned(ssz_read(dty, Take(input, h), Drop(input, h)))

C11_Witness ==
    /\ pc = "decoded"
    /\ dty = FlagData
    /\ tamper.op = "truncate"
    /\ Len(input) = 3
    /\ result = Returned(InvalidByteLength(3, 5))

\* C12: the encode side and the decode side of every type return the same
\* is_ssz_static(), ssz_fixed_len() and ssz_max_len().
C12_EncodeDecodeMirror ==
    Encoded =>
        /\ SszDecode_is_ssz_static(ty) = is_ssz_static(ty)
        /\ SszDecode_ssz_fixed_len(ty) = ssz_fixed_len(ty)
        /\ SszDecode_ssz_max_len(ty) = ssz_max_len(ty)

\* C13: fail-fast decode: when the bytes of one or two booleans of an
\* encoding that decodes are made invalid, at any nesting level, the top-level
\* decode returns the error of the first failing boolean in declaration order
\* and no value.
C13_FailFast ==
    (pc = "decoded" /\ dty = ty /\ tamper.op \in {"corrupt", "corrupt2"}
     /\ from_ssz_bytes(ty, buf).st = "ok") =>
        LET leaves == BoolLeaves(ty, value, 0)
            bad == {i \in 1..Len(leaves) : input[leaves[i] + 1] >= 2}
            first == CHOOSE i \in bad : \A j \in bad : i <= j
        IN result = Returned(OutOfRangeForBoolean(input[leaves[first] + 1]))

C13_Witness ==
    /\ pc = "decoded"
    /\ dty = ty
    /\ ty = Container(<<VariableList(Bool, MaxN), Bool>>)
    /\ tamper.op = "corrupt2"
    /\ Len(value[1]) > 0
    /\ input[BYTES_PER_LENGTH_OFFSET + 1] = 2
    /\ input[BYTES_PER_LENGTH_OFFSET + 2] = 3
    /\ result = Returned(OutOfRangeForBoolean(3))

\* C14: a bounded list read over an empty variable region is Ok(empty list),
\* for static and for variable element types; written as a container field the
\* empty list puts one 4-byte offset into the fixed region, nothing into the
\* variable region, and leaves the cursor where it was.
C14_EmptyList ==
    /\ (pc = "decoded" /\ dty.kind = "VariableList" /\ input = <<>>) =>
          /\ result = Returned(Ok(<<>>, <<>>, <<>>))
          /\ ssz_read(dty, <<>>, <<>>) = Ok(<<>>, <<>>, <<>>)
    /\ (Encoded /\ ty.kind = "VariableList" /\ value = <<>>) =>
          /\ buf = <<>>
          /\ \A cursor \in 0..(2 * BYTES_PER_LENGTH_OFFSET) :
                /\ ssz_write_fixed(ty, value, cursor)
                      = Written(to_le_bytes(cursor, 4), cursor)
                /\ ssz_write_variable(ty, value) = <<>>
    /\ (Encoded /\ ty.kind = "Container") =>
          \A i \in 1..Len(ty.sub) :
             (ty.sub[i].kind = "VariableList" /\ value[i] = <<>>) =>
                LET cursor == TailPos(ty, value, i)
                    w == ssz_write_fixed(ty.sub[i], value[i], cursor)
                IN /\ w = Written(to_le_bytes(cursor, 4), cursor)
                   /\ SubSeq(buf, HeaderPos(ty, i) + 1, HeaderPos(ty, i) + 4)
                         = w.bytes
                   /\ ssz_write_variable(ty.sub[i], value[i]) = <<>>
                   /\ TailPos(ty, value, i + 1) = cursor

C14_Witness ==
    /\ pc = "decoded"
    /\ ty = ListOfLists
    /\ dty = ty
    /\ value = <<>>
    /\ input = <<>>
    /\ result = Returned(Ok(<<>>, <<>>, <<>>))

RECURSIVE SumTo(_, _)
\* f[1] + .. + f[n]
SumTo(f, n) == IF n = 0 THEN 0 ELSE SumTo(f, n - 1) + f[n]

\* the type-level sizes of container t are those of its fields put together,
\* on the encode side and on the decode side
ContainerSizes(t) ==
    LET n == Len(t.sub)
        static == \A i \in 1..n : is_ssz_static(t.sub[i])
        staticD == \A i \in 1..n : SszDecode_is_ssz_static(t.sub[i])
        lens == [i \in 1..n |-> ssz_fixed_len(t.sub[i])]
        lensD == [i \in 1..n |-> SszDecode_ssz_fixed_len(t.sub[i])]
    IN /\ is_ssz_static(t) = static
       /\ SszDecode_is_ssz_static(t) = staticD
       /\ ssz_fixed_len(t)
             = (IF static THEN SumTo(lens, n) ELSE BYTES_PER_LENGTH_OFFSET)
       /\ SszDecode_ssz_fixed_len(t)
             = (IF staticD THEN SumTo(lensD, n) ELSE BYTES_PER_LENGTH_OFFSET)

Cursors == {0, 4, 9, 258}

\* the 4 bytes of an offset, least significant first
OffsetBytes(c) ==
    <<c % 256, (c \div 256) % 256, (c \div 65536) % 256,
      (c \div 16777216) % 256>>

\* ssz_write_fixed of v: T keeps its contract for every cursor tried
WriteFixedContract(T, v) ==
    \A cursor \in Cursors :
        LET w == ssz_write_fixed(T, v, cursor)
        IN IF is_ssz_static(T)
           THEN Len(w.bytes) = ssz_fixed_len(T) /\ w.offset = cursor
           ELSE /\ w.bytes = OffsetBytes(cursor)
                /\ w.offset = cursor + sszb_bytes_len(T, v)

RECURSIVE VariableBytesLen(_, _, _)
\* the sum of sszb_bytes_len over the variable fields among the first k
VariableBytesLen(fields, vs, k) ==
    IF k = 0 THEN 0
    ELSE VariableBytesLen(fields, vs, k - 1)
         + (IF is_ssz_static(fields[k]) THEN 0
            ELSE sszb_bytes_len(fields[k], vs[k]))

\* C16: ssz_write_fixed on a static value emits ssz_fixed_len() bytes and
\* keeps the cursor; on a variable value it emits the entry cursor as 4
\* little-endian bytes and advances the cursor by sszb_bytes_len(value); so
\* after the headers of fields 1..k the cursor is the header size plus the
\* sum of sszb_bytes_len over the variable fields among them.
C16_WriteFixedCursor ==
    pc = "encoded" =>
        /\ WriteFixedContract(ty, value)
        /\ ty.kind \in {"VariableList", "FixedVector"} =>
              \A i \in 1..Len(value) : WriteFixedContract(ty.sub[1], value[i])
        /\ ty.kind = "Container" =>
              LET header == sum_fixed_len(ty.sub)
              IN \A k \in 0..Len(ty.sub) :
                    /\ k > 0 => WriteFixedContract(ty.sub[k], value[k])
                    /\ write_fields_fixed(Take(ty.sub, k), Take(value, k),
                                          header).offset
                          = header + VariableBytesLen(ty.sub, value, k)

C16_Witness ==
    /\ pc = "encoded"
    /\ ty = Container(<<L8, U8, L16>>)
    /\ Len(value[1]) = MaxN
    /\ Len(value[3]) > 0
    /\ write_fields_fixed(ty.sub, value, 9).offset
          = 9 + Len(value[1]) + 2 * Len(value[3])
    /\ ssz_write_fixed(L8, value[1], 258) = Written(<<2, 1, 0, 0>>, 258 + MaxN)

\* the number of variable fields among the first i fields
VariableFieldsUpTo(t, i) ==
    Cardinality({j \in 1..i : ~is_ssz_static(t.sub[j])})

\* the bytes the offsets of variable field i name: from its own offset to the
\* next variable field's offset, or to the end of the bytes
NamedSpan(t, bytes, i) ==
    LET b == SpanBounds(t, bytes)
        k == VariableFieldsUpTo(t, i)
    IN SubSeq(bytes, b[k] + 1, b[k + 1])

\* every span the header names lies in the variable region, in order
SpansInRegion(t, bytes) ==
    /\ Len(bytes) >= sum_fixed_len(t.sub)
    /\ LET b == SpanBounds(t, bytes)
       IN /\ \A k \in 1..(Len(b) - 1) : b[k] <= b[k + 1]
          /\ b[1] >= sum_fixed_len(t.sub)

\* C17: a variable container that decodes has read every variable field from
\* the bytes its offsets name, tail[begin - headerLen .. end - headerLen],
\* also when begin lies beyond the tails decoded before it.
C17_FieldReadFromNamedSpan ==
    (pc = "decoded" /\ dty.kind = "Container" /\ ~is_ssz_static(dty)
     /\ SpansInRegion(dty, input) /\ result.st = "ok") =>
        \A i \in 1..Len(dty.sub) :
            ~is_ssz_static(dty.sub[i]) =>
                result.val[i]
                    = from_ssz_bytes(dty.sub[i], NamedSpan(dty, input, i)).val

\* the variable fields declared after field i
LaterVariableFields(t, i) ==
    {j \in (i + 1)..Len(t.sub) : ~is_ssz_static(t.sub[j])}

\* the `end` the decode of variable field i of the container comes to, with
\* the fixed region read up to and including the field's own offset
EndUsed(t, bytes, i) ==
    LET header == Take(bytes, sum_fixed_len(t.sub))
        fixed_cursor == HeaderPos(t, i) + BYTES_PER_LENGTH_OFFSET
        end == find_end(t.sub, 0, fixed_cursor, Drop(header, fixed_cursor))
    IN IF end.st /= "ok" THEN end
       ELSE IF end.val = None THEN Ok(Len(bytes), <<>>, <<>>)
       ELSE Ok(end.val[1], <<>>, <<>>)

\* C18: in the decode of a variable container, the `end` of a variable field
\* is the 4-byte offset in the header slot of the next variable field in
\* declaration order, read at that field's header position, and the total
\* length of the bytes when no variable field follows; in every field order.
C18_EndOfSpanLookup ==
    (pc = "decoded" /\ dty.kind = "Container" /\ ~is_ssz_static(dty)
     /\ Len(input) >= sum_fixed_len(dty.sub)) =>
        \A i \in 1..Len(dty.sub) :
            ~is_ssz_static(dty.sub[i]) =>
                LET later == LaterVariableFields(dty, i)
                    next == CHOOSE j \in later : \A k \in later : j <= k
                IN EndUsed(dty, input, i)
                      = Ok(IF later = {} THEN Len(input)
                           ELSE OffsetAt(input, HeaderPos(dty, next)),
                           <<>>, <<>>)

C18_Witness ==
    /\ pc = "decoded"
    /\ dty = Container(<<L8, U8, L16>>)
    /\ tamper.op = "none"
    /\ Len(value[1]) > 0
    /\ Len(value[3]) > 0
    /\ EndUsed(dty, input, 1) = Ok(9 + Len(value[1]), <<>>, <<>>)
    /\ EndUsed(dty, input, 3) = Ok(Len(input), <<>>, <<>>)
    /\ result.st = "ok"

\* the k-th variable field of container t
FieldOfVariable(t, k) ==
    CHOOSE i \in 1..Len(t.sub) :
        ~is_ssz_static(t.sub[i]) /\ VariableFieldsUpTo(t, i) = k

\* end - begin of each variable field, in field order
SpanLens(t, bytes) ==
    LET b == SpanBounds(t, bytes)
    IN [k \in 1..(Len(b) - 1) |-> b[k + 1] - b[k]]

\* begin <= end for every variable field
SpansOrdered(t, bytes) ==
    \A k \in DOMAIN SpanLens(t, bytes) : SpanLens(t, bytes)[k] >= 0

\* where the variable region is read from when every variable field before
\* the k-th advanced it by its end - begin
ReadPos(t, bytes, k) == SumTo(SpanLens(t, bytes), k - 1)

\* the bytes of the variable region from that position on, end - begin long
SliceRead(t, bytes, k) ==
    LET tail == Drop(bytes, sum_fixed_len(t.sub))
        at == ReadPos(t, bytes, k)
    IN SubSeq(tail, at + 1, at + SpanLens(t, bytes)[k])

\* C19: when end - begin of a variable field exceeds the bytes remaining in
\* the variable region the decode returns InvalidByteLength{len: end - begin,
\* expected: remaining}; when no span exceeds, every variable field is read
\* at the position the fields before it advanced to, each by its end - begin.
C19_SpanBound ==
    (pc = "decoded" /\ dty.kind = "Container" /\ ~is_ssz_static(dty)
     /\ Len(input) >= sum_fixed_len(dty.sub)
     /\ tamper.op \notin {"corrupt", "corrupt2"}
     /\ SpansOrdered(dty, input)) =>
        LET lens == SpanLens(dty, input)
            remaining(k) == Len(input) - sum_fixed_len(dty.sub)
                            - ReadPos(dty, input, k)
            exceeding == {k \in DOMAIN lens : lens[k] > remaining(k)}
            first == CHOOSE k \in exceeding : \A j \in exceeding : k <= j
            decodes(k) ==
                from_ssz_bytes(dty.sub[FieldOfVariable(dty, k)],
                               SliceRead(dty, input, k))
        IN IF exceeding /= {}
           THEN (\A j \in 1..(first - 1) : decodes(j).st = "ok") =>
                    result = Returned(InvalidByteLength(lens[first],
                                                        remaining(first)))
           ELSE result.st = "ok" =>
                    \A k \in DOMAIN lens :
                        result.val[FieldOfVariable(dty, k)] = decodes(k).val

C19_Witness ==
    /\ pc = "decoded"
    /\ dty = Container(<<L8, L16>>)
    /\ tamper.op = "offset"
    /\ SpansOrdered(dty, input)
    /\ value = <<<<1>>, <<>>>>
    /\ result = Returned(InvalidByteLength(9, 1))

\* the offset table of n entries at the head of the bytes, followed by the
\* total length
TableBounds(bytes, n) ==
    [i \in 1..n |-> OffsetAt(bytes, BYTES_PER_LENGTH_OFFSET * (i - 1))]
    \o <<Len(bytes)>>

\* the table names spans that lie in the payload, in order
TableInPayload(bytes, n) ==
    /\ Len(bytes) >= BYTES_PER_LENGTH_OFFSET * n
    /\ LET o == TableBounds(bytes, n)
       IN /\ \A i \in 1..n : o[i] <= o[i + 1]
          /\ n > 0 => o[1] >= BYTES_PER_LENGTH_OFFSET * n

\* C20: when a list or fixed vector of variable-size elements decodes, element
\* i is the decoding of payload[offset[i] - tableLen .. offset[i+1] - tableLen],
\* the last one ending with the payload; for fixed vectors as for lists.
C20_ElementSlicing ==
    (pc = "decoded" /\ IsVariableSequence(dty) /\ result.st = "ok"
     /\ TableInPayload(input, Len(result.val))) =>
        LET n == Len(result.val)
            o == TableBounds(input, n)
        IN \A i \in 1..n :
              result.val[i]
                  = from_ssz_bytes(dty.sub[1],
                                   SubSeq(input, o[i] + 1, o[i + 1])).val

\* C21: a bounded list of variable-size elements read from a variable region
\* of 1 to 3 bytes, and a fixed vector of N variable-size elements read from a
\* variable region shorter than 4*N bytes, return a DecodeError; no abort.
C21_ShortOffsetTable ==
    (pc = "decoded" /\ IsVariableSequence(dty)
     /\ \/ dty.kind = "VariableList"
           /\ Len(input) \in 1..(BYTES_PER_LENGTH_OFFSET - 1)
        \/ dty.kind = "FixedVector"
           /\ Len(input) < BYTES_PER_LENGTH_OFFSET * dty.n)
        => result.st = "err"

\* C22: decoding a bounded list of variable-size elements whose first offset
\* is not a multiple of 4, or is below 4, fails with
\* InvalidListFixedBytesLen(first offset); when the decode succeeds the number
\* of items is first offset / 4.
C22_MisalignedOffsetTable ==
    (pc = "decoded" /\ dty.kind = "VariableList" /\ IsVariableSequence(dty)
     /\ Len(input) >= BYTES_PER_LENGTH_OFFSET) =>
        LET first_offset == OffsetAt(input, 0)
        IN /\ (first_offset % BYTES_PER_LENGTH_OFFSET /= 0
                \/ first_offset < BYTES_PER_LENGTH_OFFSET) =>
                  /\ result.st = "err"
                  /\ result.err = DecodeError("InvalidListFixedBytesLen",
                                              first_offset, 0)
           /\ result.st = "ok" =>
                  Len(result.val) = first_offset \div BYTES_PER_LENGTH_OFFSET

IsStaticVector(t) == t.kind = "FixedVector" /\ is_ssz_static(t.sub[1])

VectorBytes(t) == t.n * ssz_fixed_len(t.sub[1])

\* C23 as stated: ssz_read of a vector of N static elements succeeds only when
\* the remaining fixed bytes number exactly N * elementFixedLen; with fewer or
\* with more remaining bytes it returns a decode error.
C23_ExactLength ==
    (pc = "read" /\ IsStaticVector(dty)) =>
        /\ result.st = "ok" => Len(input) = VectorBytes(dty)
        /\ Len(input) /= VectorBytes(dty) => result.st = "err"

\* C23, amended: ssz_read of a vector of N static elements returns a decode
\* error when fewer than N * elementFixedLen fixed bytes remain; with that
\* many or more it decodes the first N * elementFixedLen bytes, as it decodes
\* them alone, and leaves the bytes after them under the cursor.
C23_AtLeastLength ==
    (pc = "read" /\ IsStaticVector(dty) /\ VectorBytes(dty) > 0) =>
        LET h == VectorBytes(dty)
            alone == ssz_read(dty, Take(input, h), <<>>)
        IN /\ Len(input) < h => result.st = "err"
           /\ Len(input) >= h =>
                 /\ result = Returned(alone)
                 /\ result.st = "ok" => cursors.fixed = Drop(input, h)

C23_Witness ==
    /\ pc = "read"
    /\ dty = V8
    /\ tamper.op = "append"
    /\ Len(input) = VectorBytes(dty) + 1
    /\ result.st = "ok"
    /\ result.val = value
    /\ cursors.fixed = <<7>>

IsLeaf(t) == t.kind \in {"u8", "uint", "bool", "FixedBytes"}

\* C24: ssz_read of a leaf type called with fewer remaining fixed bytes than
\* ssz_fixed_len() returns InvalidByteLength{len: remaining, expected: fixed
\* length} and does not abort.
C24_LeafLengthCheck ==
    (pc = "read" /\ IsLeaf(dty) /\ Len(input) < ssz_fixed_len(dty)) =>
        result = Returned(InvalidByteLength(Len(input), ssz_fixed_len(dty)))

IsStaticSequence(t) ==
    t.kind \in {"VariableList", "FixedVector"} /\ is_ssz_static(t.sub[1])

\* C25: decoding a sequence of static elements whose element fixed length is
\* 0 from non-empty input returns ZeroLengthItem for a bounded list and a
\* decode error for a fixed vector; neither aborts.
C25_ZeroLengthElement ==
    (pc \in {"decoded", "read"} /\ IsStaticSequence(dty)
     /\ ssz_fixed_len(dty.sub[1]) = 0 /\ Len(input) > 0) =>
        /\ result.st = "err"
        /\ dty.kind = "VariableList" => result.err.kind = "ZeroLengthItem"

\* C26: every addition and multiplication of lengths is overflow-checked: when
\* the exact result exceeds 2^64 - 1 the operation raises the overflow fault,
\* and no computation goes on with a length reduced modulo 2^64.
C26_OverflowChecked ==
    pc = "sized" => ~sized.wrapped

\* the cursor is 2^32 or more
AboveFourBytes(offset) ==
    Drop(offset, BYTES_PER_LENGTH_OFFSET) /= <<0, 0, 0, 0>>

\* the offset the four written bytes spell, as a usize
OffsetWritten(bytes) == bytes \o <<0, 0, 0, 0>>

SequenceLayout(t, v, bytes) ==
    LET k == Len(v)
        T == t.sub[1]
        lens == [i \in 1..k |-> sszb_bytes_len(T, v[i])]
        at(i) == BYTES_PER_LENGTH_OFFSET * k + SumTo(lens, i - 1)
    IN /\ Len(bytes) = BYTES_PER_LENGTH_OFFSET * k + SumTo(lens, k)
       /\ \A i \in 1..k :
             /\ OffsetAt(bytes, BYTES_PER_LENGTH_OFFSET * (i - 1)) = at(i)
             /\ SubSeq(bytes, at(i) + 1, at(i) + lens[i]) = ssz_write(T, v[i])

\* C27: ssz_write of a list or vector of k variable-size elements emits k
\* 4-byte little-endian offsets followed by the k element encodings in order,
\* offset[0] = 4*k and offset[i+1] = offset[i] + sszb_bytes_len(element i),
\* also when the sequence is the field of an enclosing container.
C27_SequenceRelativeOffsets ==
    Encoded =>
        /\ IsVariableSequence(ty) => SequenceLayout(ty, value, buf)
        /\ ty.kind = "Container" =>
              \A i \in 1..Len(ty.sub) :
                 IsVariableSequence(ty.sub[i]) =>
                    LET p == TailPos(ty, value, i)
                        n == sszb_bytes_len(ty.sub[i], value[i])
                    IN SequenceLayout(ty.sub[i], value[i],
                                      SubSeq(buf, p + 1, p + n))

C27_Witness ==
    /\ pc = "encoded"
    /\ ty = Container(<<U8, ListOfLists>>)
    /\ value = <<1, <<<<1>>, <<>>>>>>
    /\ buf = <<1, 5, 0, 0, 0, 8, 0, 0, 0, 9, 0, 0, 0, 1>>

\* the decode of the variable container dty over input, through field k
PrefixOf(k) ==
    LET h == sum_fixed_len(dty.sub)
    IN read_prefix(dty.sub, k, Take(input, h), Drop(input, h), Len(input))

\* C28: in the decode of a variable container, after any prefix of the fields
\* has been decoded successfully, fixed_cursor is the number of bytes consumed
\* from the fixed region, the sum over the processed fields of their fixed
\* length (4 for a variable field), and the bytes consumed from the variable
\* region number the sum of end - begin over the processed variable fields.
C28_ReadCursors ==
    (pc = "decoded" /\ dty.kind = "Container" /\ ~is_ssz_static(dty)
     /\ Len(input) >= sum_fixed_len(dty.sub)) =>
        LET h == sum_fixed_len(dty.sub)
        IN /\ \A k \in 0..Len(dty.sub) :
                 PrefixOf(k).st = "ok" =>
                    /\ PrefixOf(k).fixed_cursor = h - Len(PrefixOf(k).fixed)
                    /\ PrefixOf(k).fixed_cursor
                          = sum_fixed_len(Take(dty.sub, k))
                    /\ (Len(input) - h) - Len(PrefixOf(k).variable)
                          = SumTo(SpanLens(dty, input),
                                  VariableFieldsUpTo(dty, k))
           /\ result.st = PrefixOf(Len(dty.sub)).st

C28_Witness ==
    /\ pc = "decoded"
    /\ dty = Container(<<V8, L8>>)
    /\ value = <<<<1, 1>>, <<1, 1>>>>
    /\ input = buf
    /\ result.st = "ok"
    /\ PrefixOf(1).fixed_cursor = 2
    /\ PrefixOf(2).fixed_cursor = 6
    /\ PrefixOf(2).fixed = <<>>
    /\ PrefixOf(2).variable = <<>>

\* C29: for a static container with header length h and bytes b longer than
\* h, from_ssz_bytes(b) returns exactly what from_ssz_bytes(b[0..h]) returns:
\* the bytes after position h are never read and never cause an error.
C29_SurplusIgnored ==
    (pc = "decoded" /\ dty.kind = "Container" /\ is_ssz_static(dty)
     /\ Len(input) > sum_fixed_len(dty.sub)) =>
        result = Returned(from_ssz_bytes(dty, Take(input,
                                                   sum_fixed_len(dty.sub))))

====
